---- MODULE Spec2Model ----
(***************************************************************************)
(* RedisSegmentClaimManager (src/src/distributed/redisSegmentClaimManager.ts) *)
(* as a state machine: the Redis key space with millisecond expiry, the     *)
(* claimSegment / extend / release / markSegmentCompleted calls of several  *)
(* managers split at their awaits, and the clock.                           *)
(*                                                                         *)
(* Time is scaled: one tick stands for half a lease (DefaultTTL = 2 ticks). *)
(* Date.now() and the store's clock are the one variable `now`.             *)
(* Store commands complete without raising and connections stay open in   *)
(* Spec, LiveSpec, PoolSpec, ClassSpec and UnacquiredSpec; StatusFaultSpec  *)
(* and PoolFaultSpec add the commands that raise and the connections that   *)
(* close. KeySpec is the key namer on its own.                              *)
(***************************************************************************)
EXTENDS Integers, Sequences, FiniteSets, TLC

VARIABLES
    now,           \* the clock: Date.now() and the store's time
    redis,         \* the key space
    pc,            \* where each claimSegment call and its Claim stand
    seg,           \* the identity a call was given
    expiresAt,     \* claimSegment's local expiresAt
    claim,         \* the SegmentClaim a call returned
    mpc,           \* where each markSegmentCompleted call stands
    mseg,          \* the identity it was given
    mwrote,        \* when it wrote the Completion Record
    markedUntil,   \* history: end of the completion TTL of the returned marks
    round,         \* history: the SET NX calls since the lock was last absent
    lapsed,        \* history: a lease ran out under a worker still processing
    clobbered,     \* history: claimSegment wrote the status after the last mark
    last           \* history: the store command of the last step

VARIABLES
    subscriberPool, \* the idle handles of one manager, the last one on top
    disposed,       \* that manager's disposed flag
    spc,            \* where each subscribeToSegmentComplete call stands
    sseg,           \* the identity it was given
    handle,         \* the subscriber handle it holds
    nDisconnected,  \* history: the open handles disconnect() closed
    released,       \* history: the releaseSubscriber calls on a call's handle
    plast           \* history: the publish, release or dispose of the last step

VARIABLES
    kid,            \* the identity given to the key namer
    knamed          \* the keys and the channel derived from it

leaseVars == <<now, redis, pc, seg, expiresAt, claim,
               mpc, mseg, mwrote, markedUntil, round, lapsed, clobbered, last>>

poolVars == <<subscriberPool, disposed, spc, sseg, handle, nDisconnected, plast>>

keyVars == <<kid, knamed>>

vars == <<leaseVars, poolVars, released, keyVars>>

(* ------------------------------ bounds -------------------------------- *)
\* the clock stops at MaxTime
MaxTime == 5
\* constructor parameter defaultTTL (60000 ms in the source), in ticks
DefaultTTL == 2
\* constructor parameter completedSegmentTTL (7 days in the source), in ticks
CompletedSegmentTTL == 4

(* ------------------------- managers and calls ------------------------- *)
WorkerIds == {"w1", "w2"}
\* claimSegment calls; c1 and c3 go through the same manager (worker id w1)
Calls == {"c1", "c2", "c3"}
workerId(c) == IF c = "c2" THEN "w2" ELSE "w1"
\* markSegmentCompleted calls
Markers == {"m1"}

\* segment identities (fileId, streamType, quality, streamIndex, segmentIndex);
\* the claim and completion calls below are made on the first one
Identities == { <<"f", "v", "720p", 0, 3>> }
NoSeg == <<>>

lockPrefix == "transcoder:segment:lock:"
statusPrefix == "transcoder:segment:status:"
completedPrefix == "transcoder:segment:completed:"

getSegmentKey_NoDelimiter(fileId, streamType, quality, streamIndex, segmentIndex) ==
    fileId \o streamType \o quality \o ToString(streamIndex) \o ToString(segmentIndex)
getSegmentKey(fileId, streamType, quality, streamIndex, segmentIndex) ==
    fileId \o ":" \o streamType \o ":" \o quality \o ":"
           \o ToString(streamIndex) \o ":" \o ToString(segmentIndex)

SegmentKey(id) == getSegmentKey(id[1], id[2], id[3], id[4], id[5])
LockKey(id) == lockPrefix \o SegmentKey(id)
StatusKey_CompletedPrefix(id) == completedPrefix \o SegmentKey(id)
StatusKey(id) == statusPrefix \o SegmentKey(id)
CompletedKey(id) == completedPrefix \o SegmentKey(id)

(* ----------------------- subscriptions and pool ----------------------- *)
\* private readonly poolSize = 5
poolSize == 5
\* subscribeToSegmentComplete calls, all through one manager (one pool)
Subs == {"s1", "s2", "s3", "s4", "s5", "s6"}
\* the identities subscribed to and published on
PubIdentities == { <<"f", "v", "720p", 0, 3>>, <<"f", "v", "720p", 0, 4>> }
\* the identities a call may be given: either for s1, one each for the rest
Wanted(s) ==
    IF s = "s1" THEN PubIdentities
    ELSE IF s \in {"s3", "s5"} THEN { <<"f", "v", "720p", 0, 3>> }
    ELSE { <<"f", "v", "720p", 0, 4>> }

\* `transcoder:segment:complete:${segmentKey}`
Channel_FileOnly(id) == "transcoder:segment:complete:" \o id[1]
Channel(id) == "transcoder:segment:complete:" \o SegmentKey(id)

\* A subscriber handle (a duplicated client): whether it is open, and the
\* listeners it carries, each a channel and the subscription whose callback
\* it invokes. A handle is held by one subscription or lies in the pool.
NoHandle == [isOpen |-> FALSE, listeners |-> {}]
\* this.redis.duplicate() followed by connect()
NewSubscriber == [isOpen |-> TRUE, listeners |-> {}]

(* ------------------------------ the store ----------------------------- *)
\* redis is a function from the keys that exist to [value, pexpireAt]:
\* value a string, pexpireAt the instant the key's TTL runs out.
Exists(db, k) == k \in DOMAIN db
Get(db, k) == IF Exists(db, k) THEN db[k].value ELSE "(nil)"
\* the entry under k as a sequence of zero or one element
Entry(db, k) == IF Exists(db, k) THEN <<db[k]>> ELSE <<>>
\* SET k v PX ttl
SetPX(db, k, v, ttl) ==
    [x \in DOMAIN db \cup {k} |->
        IF x = k THEN [value |-> v, pexpireAt |-> now + ttl] ELSE db[x]]
\* DEL k
Del(db, k) == [x \in DOMAIN db \ {k} |-> db[x]]
\* the keys whose TTL has run out at instant t are gone
Expire(db, t) == [x \in {y \in DOMAIN db : db[y].pexpireAt > t} |-> db[x]]

\* JSON.stringify({ workerId, expiresAt })
JSONstringify(w, e) ==
    "{\"workerId\":\"" \o w \o "\",\"expiresAt\":" \o ToString(e) \o "}"
LockData == [workerId : WorkerIds, expiresAt : 0..(MaxTime + DefaultTTL)]
\* cjson.decode(lock): the object whose text is s
cjsonDecode(s) ==
    CHOOSE d \in LockData : JSONstringify(d.workerId, d.expiresAt) = s
\* cjson.encode(data)
cjsonEncode(d) == JSONstringify(d.workerId, d.expiresAt)

(* ------------------------------- claims ------------------------------- *)
NoClaim == [acquired |-> FALSE, segmentKey |-> "", workerId |-> "", expiresAt |-> -1]

createFailedClaim(c, segmentKey) ==
    [acquired |-> FALSE, segmentKey |-> segmentKey,
     workerId |-> workerId(c), expiresAt |-> 0]

createSuccessfulClaim(c, segmentKey, e) ==
    [acquired |-> TRUE, segmentKey |-> segmentKey,
     workerId |-> workerId(c), expiresAt |-> e]

NoOp == [op |-> "none"]
Op(name, c, k, reply) ==
    [op |-> name, call |-> c, key |-> k, pre |-> Entry(redis, k), reply |-> reply]

\* redis.set(lockKey, value, { NX: true, PX: ttl }): the new key space and the reply
SetNXPX_Overwrite(db, k, v, ttl) == [db |-> SetPX(db, k, v, ttl), reply |-> "OK"]
SetNXPX_AlwaysOK(db, k, v, ttl) ==
    [db |-> IF Exists(db, k) THEN db ELSE SetPX(db, k, v, ttl), reply |-> "OK"]
SetNXPX(db, k, v, ttl) ==
    IF Exists(db, k) THEN [db |-> db, reply |-> "(nil)"]
                     ELSE [db |-> SetPX(db, k, v, ttl), reply |-> "OK"]

\* the Lua script of extend(): KEYS[1], ARGV[1] (worker id), ARGV[2] (new
\* expiresAt), ARGV[3] (TTL)
extendScript_NoOwnerCheck(db, key, argWorker, argExpiry, argTTL) ==
    IF Exists(db, key)
    THEN [db |-> SetPX(db, key,
                       cjsonEncode([cjsonDecode(Get(db, key)) EXCEPT !.expiresAt = argExpiry]),
                       argTTL),
          reply |-> 1]
    ELSE [db |-> db, reply |-> 0]
extendScript_KeepTTL(db, key, argWorker, argExpiry, argTTL) ==
    IF Exists(db, key) /\ cjsonDecode(Get(db, key)).workerId = argWorker
    THEN [db |-> [db EXCEPT ![key].value =
                      cjsonEncode([cjsonDecode(Get(db, key)) EXCEPT !.expiresAt = argExpiry])],
          reply |-> 1]
    ELSE [db |-> db, reply |-> 0]
extendScript(db, key, argWorker, argExpiry, argTTL) ==
    IF Exists(db, key)
    THEN LET data == cjsonDecode(Get(db, key)) IN
         IF data.workerId = argWorker
         THEN [db |-> SetPX(db, key,
                            cjsonEncode([data EXCEPT !.expiresAt = argExpiry]), argTTL),
               reply |-> 1]
         ELSE [db |-> db, reply |-> 0]
    ELSE [db |-> db, reply |-> 0]

\* the Lua script of release(): KEYS[1], ARGV[1] (worker id)
releaseScript_KeepsLock(db, key, argWorker) ==
    IF Exists(db, key) /\ cjsonDecode(Get(db, key)).workerId = argWorker
    THEN [db |-> db, reply |-> 1]
    ELSE [db |-> db, reply |-> 0]
releaseScript_NoOwnerCheck(db, key, argWorker) ==
    IF Exists(db, key) THEN [db |-> Del(db, key), reply |-> 1]
                       ELSE [db |-> db, reply |-> 0]
releaseScript(db, key, argWorker) ==
    IF Exists(db, key)
    THEN LET data == cjsonDecode(Get(db, key)) IN
         IF data.workerId = argWorker
         THEN [db |-> Del(db, key), reply |-> 1]
         ELSE [db |-> db, reply |-> 0]
    ELSE [db |-> db, reply |-> 0]

\* the PX of the Lock Record, of the status claimSegment writes, and of the
\* two records markSegmentCompleted writes
lockPX_None == MaxTime + MaxTime + DefaultTTL
lockPX == DefaultTTL
processingPX == DefaultTTL * 2
completedPX_Lease == DefaultTTL
completedPX == CompletedSegmentTTL
completedStatusPX_Lease == DefaultTTL
completedStatusPX == CompletedSegmentTTL

\* the lease side after construction: an empty key space
LeaseInit ==
    /\ now = 0
    /\ redis = << >>
    /\ pc = [c \in Calls |-> "idle"]
    /\ seg = [c \in Calls |-> NoSeg]
    /\ expiresAt = [c \in Calls |-> 0]
    /\ claim = [c \in Calls |-> NoClaim]
    /\ mpc = [m \in Markers |-> "idle"]
    /\ mseg = [m \in Markers |-> NoSeg]
    /\ mwrote = [m \in Markers |-> 0]
    /\ markedUntil = [id \in Identities |-> 0]
    /\ round = [id \in Identities |-> {}]
    /\ lapsed = [id \in Identities |-> FALSE]
    /\ clobbered = [id \in Identities |-> FALSE]
    /\ last = NoOp

\* the notification side after construction: an empty pool, not disposed
PoolInit ==
    /\ subscriberPool = << >>
    /\ disposed = FALSE
    /\ spc = [s \in Subs |-> "idle"]
    /\ sseg = [s \in Subs |-> NoSeg]
    /\ handle = [s \in Subs |-> NoHandle]
    /\ nDisconnected = 0
    /\ released = [s \in Subs |-> 0]
    /\ plast = NoOp

NoKeys == << >>

Init ==
    /\ LeaseInit
    /\ PoolInit
    /\ kid = NoSeg
    /\ knamed = NoKeys

Max(a, b) == IF a >= b THEN a ELSE b

(* --------------------------- claimSegment ----------------------------- *)
\* lines 61-76: expiresAt = Date.now() + defaultTTL, then the store runs
\* SET lockKey value NX PX; a nil reply returns the failed claim
ClaimSetNX(c, id) ==
    /\ pc[c] = "idle"
    /\ now + DefaultTTL <= MaxTime
    /\ seg' = [seg EXCEPT ![c] = id]
    /\ LET k == LockKey(id)
           v == JSONstringify(workerId(c), now + DefaultTTL)
           r == SetNXPX(redis, k, v, lockPX)
       IN /\ redis' = r.db
          /\ last' = Op("setnx", c, k, r.reply)
          /\ round' = [round EXCEPT ![id] = @ \cup {c}]
          /\ IF r.reply = "OK"
             THEN /\ pc' = [pc EXCEPT ![c] = "status"]
                  /\ expiresAt' = [expiresAt EXCEPT ![c] = now + DefaultTTL]
                  /\ claim' = claim
             ELSE /\ expiresAt' = expiresAt
                  /\ pc' = [pc EXCEPT ![c] = "failed"]
                  /\ claim' = [claim EXCEPT ![c] = createFailedClaim(c, SegmentKey(id))]
    /\ UNCHANGED <<poolVars, released, keyVars, now, mpc, mseg, mwrote, markedUntil, lapsed, clobbered>>

\* lines 78-85: the status is written and the successful claim returned
ClaimSetStatus(c) ==
    /\ pc[c] = "status"
    /\ redis' = SetPX(redis, StatusKey(seg[c]), "processing", processingPX)
    /\ last' = NoOp
    /\ claim' = [claim EXCEPT ![c] =
                     createSuccessfulClaim(c, SegmentKey(seg[c]), expiresAt[c])]
    /\ pc' = [pc EXCEPT ![c] = "held"]
    /\ clobbered' = [clobbered EXCEPT ![seg[c]] = TRUE]
    /\ UNCHANGED <<poolVars, released, keyVars, now, seg, expiresAt, mpc, mseg, mwrote, markedUntil, round, lapsed>>

(* ------------------------- extend and release ------------------------- *)
\* lines 304-327: newExpiresAt = Date.now() + defaultTTL, then the store runs
\* the script; extend returns result === 1
Extend(c) ==
    /\ pc[c] = "held"
    /\ now + DefaultTTL <= MaxTime
    /\ LET k == LockKey(seg[c])
           r == extendScript(redis, k, workerId(c), now + DefaultTTL, DefaultTTL)
       IN /\ redis' = r.db
          /\ last' = Op("extend", c, k, r.reply)
    /\ UNCHANGED <<poolVars, released, keyVars, now, pc, seg, expiresAt, claim, mpc, mseg, mwrote, markedUntil,
                   round, lapsed, clobbered>>

\* lines 328-345: release() runs its script
Release(c) ==
    /\ pc[c] = "held"
    /\ LET k == LockKey(seg[c])
           r == releaseScript(redis, k, workerId(c))
       IN /\ redis' = r.db
          /\ last' = Op("release", c, k, r.reply)
          /\ round' = [round EXCEPT ![seg[c]] = IF Exists(r.db, k) THEN @ ELSE {}]
    /\ pc' = [pc EXCEPT ![c] = "released"]
    /\ UNCHANGED <<poolVars, released, keyVars, now, seg, expiresAt, claim, mpc, mseg, mwrote, markedUntil,
                   lapsed, clobbered>>

\* the worker holding the claim stops: it calls neither extend() nor release()
Crash(c) ==
    /\ pc[c] = "held"
    /\ pc' = [pc EXCEPT ![c] = "crashed"]
    /\ last' = NoOp
    /\ UNCHANGED <<poolVars, released, keyVars, now, redis, seg, expiresAt, claim, mpc, mseg, mwrote, markedUntil,
                   round, lapsed, clobbered>>

(* ------------------------ markSegmentCompleted ------------------------ *)
\* lines 115-122: the Completion Record is written
MarkSetCompleted(m, id) ==
    /\ mpc[m] = "idle"
    /\ redis' = SetPX(redis, CompletedKey(id), "true", completedPX)
    /\ last' = NoOp
    /\ mpc' = [mpc EXCEPT ![m] = "status"]
    /\ mseg' = [mseg EXCEPT ![m] = id]
    /\ mwrote' = [mwrote EXCEPT ![m] = now]
    /\ UNCHANGED <<poolVars, released, keyVars, now, pc, seg, expiresAt, claim, markedUntil, round, lapsed, clobbered>>

\* lines 124-130: the status is written and the call returns
MarkSetStatus(m) ==
    /\ mpc[m] = "status"
    /\ redis' = SetPX(redis, StatusKey(mseg[m]), "completed", completedStatusPX)
    /\ last' = NoOp
    /\ mpc' = [mpc EXCEPT ![m] = "idle"]
    /\ mwrote' = [mwrote EXCEPT ![m] = 0]
    /\ markedUntil' = [markedUntil EXCEPT ![mseg[m]] =
                           Max(@, mwrote[m] + CompletedSegmentTTL)]
    /\ clobbered' = [clobbered EXCEPT ![mseg[m]] = FALSE]
    /\ UNCHANGED <<poolVars, released, keyVars, now, pc, seg, expiresAt, claim, mseg, round, lapsed>>

(* ------------------------------ queries ------------------------------- *)
\* lines 91-103
isSegmentCompleted(id) == Get(redis, CompletedKey(id)) = "true"
\* lines 135-146
getSegmentStatus(id) == Get(redis, StatusKey(id))

(* ------------------------------ the clock ----------------------------- *)
\* a call that returned acquired = true and has not called release()
Processing(c) == pc[c] = "held"
\* a call that created the Lock Record and has not returned yet
Entering(c) == pc[c] = "status"

\* one tick passes; the store drops the keys whose TTL has run out
Tick ==
    /\ now < MaxTime
    /\ now' = now + 1
    /\ redis' = Expire(redis, now + 1)
    /\ last' = NoOp
    /\ round' = [id \in Identities |->
                    IF Exists(redis', LockKey(id)) THEN round[id] ELSE {}]
    /\ lapsed' = [id \in Identities |->
                     \/ lapsed[id]
                     \/ /\ Exists(redis, LockKey(id))
                        /\ ~Exists(redis', LockKey(id))
                        /\ \E c \in Calls :
                              seg[c] = id /\ (Processing(c) \/ Entering(c))]
    /\ UNCHANGED <<poolVars, released, keyVars, pc, seg, expiresAt, claim, mpc, mseg, mwrote, markedUntil, clobbered>>

(* --------------------------- the handle pool -------------------------- *)
\* lines 167-179: the popped handle if there is one and it is open, or else
\* a new connected one; the pool loses its top handle either way
getSubscriber(pool) ==
    LET n == Len(pool)
        rest == IF n > 0 THEN SubSeq(pool, 1, n - 1) ELSE << >>
    IN IF n > 0 /\ pool[n].isOpen
       THEN [pool |-> rest, subscriber |-> pool[n]]
       ELSE [pool |-> rest, subscriber |-> NewSubscriber]

\* lines 184-206: the pool after the release, whether the handle went into it,
\* and how many open handles disconnect() closed
releaseSubscriber_OffByOne(pool, isDisposed, subscriber) ==
    IF isDisposed \/ ~subscriber.isOpen
    THEN [pool |-> pool, pooled |-> FALSE, closed |-> IF subscriber.isOpen THEN 1 ELSE 0]
    ELSE IF Len(pool) <= poolSize
         THEN [pool |-> Append(pool, subscriber), pooled |-> TRUE, closed |-> 0]
         ELSE [pool |-> pool, pooled |-> FALSE, closed |-> 1]
releaseSubscriber(pool, isDisposed, subscriber) ==
    IF isDisposed \/ ~subscriber.isOpen
    THEN [pool |-> pool, pooled |-> FALSE, closed |-> IF subscriber.isOpen THEN 1 ELSE 0]
    ELSE IF Len(pool) < poolSize
         THEN [pool |-> Append(pool, subscriber), pooled |-> TRUE, closed |-> 0]
         ELSE [pool |-> pool, pooled |-> FALSE, closed |-> 1]

RelOp(s, r) ==
    [op |-> "release", sub |-> s, before |-> Len(subscriberPool),
     wasOpen |-> handle[s].isOpen, wasDisposed |-> disposed,
     pooled |-> r.pooled, closed |-> r.closed]

(* --------------------- subscribeToSegmentComplete --------------------- *)
\* lines 219-222: the channel, and the handle from getSubscriber (its connect
\* included); the SUBSCRIBE is sent
SubscribeStart(s, id) ==
    /\ spc[s] = "idle"
    /\ id \in Wanted(s)
    /\ LET r == getSubscriber(subscriberPool)
       IN /\ subscriberPool' = r.pool
          /\ handle' = [handle EXCEPT ![s] = r.subscriber]
    /\ sseg' = [sseg EXCEPT ![s] = id]
    /\ spc' = [spc EXCEPT ![s] = "subscribing"]
    /\ plast' = NoOp
    /\ UNCHANGED <<leaseVars, keyVars, disposed, nDisconnected, released>>

\* lines 224-236: the store registers the subscription, the handle carries
\* the listener, and the unsubscribe closure is returned
SubscribeDone(s) ==
    /\ spc[s] = "subscribing"
    /\ handle' = [handle EXCEPT ![s].listeners =
                      @ \cup {[channel |-> Channel(sseg[s]), cb |-> s]}]
    /\ spc' = [spc EXCEPT ![s] = "subscribed"]
    /\ plast' = NoOp
    /\ UNCHANGED <<leaseVars, keyVars, subscriberPool, disposed, sseg, nDisconnected, released>>

\* lines 236-240: the closure is called; an open handle sends UNSUBSCRIBE
UnsubscribeCall(s) ==
    /\ spc[s] = "subscribed"
    /\ handle[s].isOpen
    /\ spc' = [spc EXCEPT ![s] = "unsubscribing"]
    /\ plast' = NoOp
    /\ UNCHANGED <<leaseVars, keyVars, subscriberPool, disposed, sseg, handle, nDisconnected, released>>

\* the handle without its listeners on channel ch
Unsubscribed(h, ch) ==
    [h EXCEPT !.listeners = {l \in @ : l.channel # ch}]

\* lines 239-246: the store drops the subscription, the handle its listeners
\* on the channel, and the finally block releases the handle
UnsubscribeDone(s) ==
    /\ spc[s] = "unsubscribing"
    /\ LET h == Unsubscribed(handle[s], Channel(sseg[s]))
           r == releaseSubscriber(subscriberPool, disposed, h)
       IN /\ subscriberPool' = r.pool
          /\ nDisconnected' = nDisconnected + r.closed
          /\ plast' = RelOp(s, r)
    /\ released' = [released EXCEPT ![s] = @ + 1]
    /\ handle' = [handle EXCEPT ![s] = NoHandle]
    /\ spc' = [spc EXCEPT ![s] = "done"]
    /\ UNCHANGED <<leaseVars, keyVars, disposed, sseg>>

(* ------------------------------ dispose ------------------------------- *)
\* the open handles among those of a sequence
OpenIn(pool) == {i \in 1..Len(pool) : pool[i].isOpen}

\* lines 253-271
Dispose ==
    /\ ~disposed
    /\ disposed' = TRUE
    /\ subscriberPool' = << >>
    /\ nDisconnected' = nDisconnected + Cardinality(OpenIn(subscriberPool))
    /\ plast' = NoOp
    /\ UNCHANGED <<leaseVars, keyVars, spc, sseg, handle, released>>

(* ----------------------- publishSegmentComplete ----------------------- *)
\* how many listeners of subscription s the open handles carry on channel ch
Invocations(s, ch) ==
    Cardinality({t \in Subs : handle[t].isOpen
                              /\ [channel |-> ch, cb |-> s] \in handle[t].listeners})
    + Cardinality({i \in OpenIn(subscriberPool) :
                       [channel |-> ch, cb |-> s] \in subscriberPool[i].listeners})

\* lines 151-162: the store delivers 'completed' to every open handle
\* subscribed to the channel, and each listener invokes its callback
PublishSegmentComplete(id) ==
    /\ plast' = [op |-> "publish", id |-> id,
                 fired |-> [s \in Subs |-> Invocations(s, Channel(id))]]
    /\ UNCHANGED <<leaseVars, keyVars, subscriberPool, disposed, spc, sseg, handle, nDisconnected, released>>

PoolNext ==
    \/ \E s \in Subs, id \in PubIdentities : SubscribeStart(s, id)
    \/ \E s \in Subs : SubscribeDone(s)
    \/ \E s \in Subs : UnsubscribeCall(s)
    \/ \E s \in Subs : UnsubscribeDone(s)
    \/ \E id \in PubIdentities : PublishSegmentComplete(id)
    \/ Dispose

PoolSpec == Init /\ [][PoolNext]_vars

(* ------------------ failures on the subscriber handles ---------------- *)
\* From here on a handle's connection may close, and its subscribe,
\* unsubscribe and disconnect commands may raise.

\* lines 187-191, 200-204 and 262-268: try { await subscriber.disconnect() }
\* catch {}: the call is made, an open handle is closed unless the call
\* fails, and the error goes no further
tryDisconnect_Rethrow(subscriber, fails) ==
    [attempted |-> 1,
     closed |-> IF subscriber.isOpen /\ ~fails THEN 1 ELSE 0,
     raised |-> fails]
tryDisconnect(subscriber, fails) ==
    [attempted |-> 1,
     closed |-> IF subscriber.isOpen /\ ~fails THEN 1 ELSE 0,
     raised |-> FALSE]

\* lines 184-206 with a disconnect that may fail: the pool after the release,
\* whether the handle went into it, whether disconnect() was called, how many
\* open handles it closed, and whether an error left releaseSubscriber
releaseSubscriberTry_IgnoreDisposed(pool, isDisposed, subscriber, fails) ==
    IF ~subscriber.isOpen \/ Len(pool) >= poolSize
    THEN LET d == tryDisconnect(subscriber, fails)
         IN [pool |-> pool, pooled |-> FALSE, attempted |-> d.attempted,
             closed |-> d.closed, raised |-> d.raised]
    ELSE [pool |-> Append(pool, subscriber), pooled |-> TRUE, attempted |-> 0,
          closed |-> 0, raised |-> FALSE]
releaseSubscriberTry(pool, isDisposed, subscriber, fails) ==
    IF isDisposed \/ ~subscriber.isOpen
    THEN LET d == tryDisconnect(subscriber, fails)
         IN [pool |-> pool, pooled |-> FALSE, attempted |-> d.attempted,
             closed |-> d.closed, raised |-> d.raised]
    ELSE IF Len(pool) < poolSize
         THEN [pool |-> Append(pool, subscriber), pooled |-> TRUE, attempted |-> 0,
               closed |-> 0, raised |-> FALSE]
         ELSE LET d == tryDisconnect(subscriber, fails)
              IN [pool |-> pool, pooled |-> FALSE, attempted |-> d.attempted,
                  closed |-> d.closed, raised |-> d.raised]

\* the release of the handle h that call s held, after `why`
RelTry(s, h, r, why) ==
    [op |-> "release", sub |-> s, why |-> why, before |-> Len(subscriberPool),
     wasOpen |-> h.isOpen, wasDisposed |-> disposed, listening |-> h.listeners # {},
     pooled |-> r.pooled, attempted |-> r.attempted, closed |-> r.closed,
     raised |-> r.raised]

\* a handle whose connection has closed: the store has dropped its subscriptions
Closed(h) == [h EXCEPT !.isOpen = FALSE, !.listeners = {}]

\* the connection of the handle a call holds closes
ConnectionLost(s) ==
    /\ spc[s] \in {"subscribing", "subscribed", "unsubscribing"}
    /\ handle[s].isOpen
    /\ handle' = [handle EXCEPT ![s] = Closed(@)]
    /\ plast' = NoOp
    /\ UNCHANGED <<leaseVars, keyVars, subscriberPool, disposed, spc, sseg, nDisconnected,
                   released>>

\* the connection of an idle handle closes
IdleConnectionLost(i) ==
    /\ i \in OpenIn(subscriberPool)
    /\ subscriberPool' = [subscriberPool EXCEPT ![i] = Closed(@)]
    /\ plast' = NoOp
    /\ UNCHANGED <<leaseVars, keyVars, disposed, spc, sseg, handle, nDisconnected, released>>

\* lines 224-233: subscribe() raises; the catch block releases the handle and
\* throws the error on, so no closure is returned
SubscribeFails_NoRelease(s, fails) ==
    /\ spc[s] = "subscribing"
    /\ plast' = NoOp
    /\ spc' = [spc EXCEPT ![s] = "failed"]
    /\ UNCHANGED <<leaseVars, keyVars, subscriberPool, disposed, sseg, handle, nDisconnected,
                   released>>
SubscribeFails(s, fails) ==
    /\ spc[s] = "subscribing"
    /\ LET r == releaseSubscriberTry(subscriberPool, disposed, handle[s], fails)
       IN /\ subscriberPool' = r.pool
          /\ nDisconnected' = nDisconnected + r.closed
          /\ plast' = RelTry(s, handle[s], r, "subscribe failed")
    /\ released' = [released EXCEPT ![s] = @ + 1]
    /\ handle' = [handle EXCEPT ![s] = NoHandle]
    /\ spc' = [spc EXCEPT ![s] = "failed"]
    /\ UNCHANGED <<leaseVars, keyVars, disposed, sseg>>

\* lines 236-246: the closure is called on a handle that is not open; it
\* sends no UNSUBSCRIBE and the finally block releases the handle
UnsubscribeClosed(s, fails) ==
    /\ spc[s] = "subscribed"
    /\ ~handle[s].isOpen
    /\ LET r == releaseSubscriberTry(subscriberPool, disposed, handle[s], fails)
       IN /\ subscriberPool' = r.pool
          /\ nDisconnected' = nDisconnected + r.closed
          /\ plast' = RelTry(s, handle[s], r, "not open")
          /\ spc' = [spc EXCEPT ![s] = IF r.raised THEN "threw" ELSE "done"]
    /\ released' = [released EXCEPT ![s] = @ + 1]
    /\ handle' = [handle EXCEPT ![s] = NoHandle]
    /\ UNCHANGED <<leaseVars, keyVars, disposed, sseg>>

\* lines 239-246: unsubscribe() resolves on an open handle, which drops its
\* listeners on the channel, and the finally block releases the handle
UnsubscribeResolves(s, fails) ==
    /\ spc[s] = "unsubscribing"
    /\ handle[s].isOpen
    /\ LET h == Unsubscribed(handle[s], Channel(sseg[s]))
           r == releaseSubscriberTry(subscriberPool, disposed, h, fails)
       IN /\ subscriberPool' = r.pool
          /\ nDisconnected' = nDisconnected + r.closed
          /\ plast' = RelTry(s, h, r, "unsubscribed")
          /\ spc' = [spc EXCEPT ![s] = IF r.raised THEN "threw" ELSE "done"]
    /\ released' = [released EXCEPT ![s] = @ + 1]
    /\ handle' = [handle EXCEPT ![s] = NoHandle]
    /\ UNCHANGED <<leaseVars, keyVars, disposed, sseg>>

\* lines 239-246: unsubscribe() raises; the error is logged, the handle keeps
\* its listeners (kept) or has lost them, and the finally block releases it
UnsubscribeRejects(s, kept, fails) ==
    /\ spc[s] = "unsubscribing"
    /\ LET h == IF kept THEN handle[s] ELSE Unsubscribed(handle[s], Channel(sseg[s]))
           r == releaseSubscriberTry(subscriberPool, disposed, h, fails)
       IN /\ subscriberPool' = r.pool
          /\ nDisconnected' = nDisconnected + r.closed
          /\ plast' = RelTry(s, h, r, "unsubscribe failed")
          /\ spc' = [spc EXCEPT ![s] = IF r.raised THEN "threw" ELSE "done"]
    /\ released' = [released EXCEPT ![s] = @ + 1]
    /\ handle' = [handle EXCEPT ![s] = NoHandle]
    /\ UNCHANGED <<leaseVars, keyVars, disposed, sseg>>

\* lines 253-271 with disconnects that may fail: the flag is set, the pool
\* emptied, and disconnect() is called on every open handle of the snapshot;
\* failing is the set of handles whose disconnect() raises
DisposeTry(failing) ==
    /\ ~disposed
    /\ failing \subseteq OpenIn(subscriberPool)
    /\ LET subscribers == subscriberPool
           d == [i \in OpenIn(subscribers) |-> tryDisconnect(subscribers[i], i \in failing)]
       IN /\ nDisconnected' = nDisconnected
                                + Cardinality({i \in OpenIn(subscribers) : d[i].closed = 1})
          /\ plast' = [op |-> "dispose",
                       idle |-> Len(subscribers),
                       open |-> Cardinality(OpenIn(subscribers)),
                       attempted |-> Cardinality({i \in OpenIn(subscribers) :
                                                      d[i].attempted = 1}),
                       failed |-> Cardinality(failing),
                       raised |-> \E i \in OpenIn(subscribers) : d[i].raised]
    /\ disposed' = TRUE
    /\ subscriberPool' = << >>
    /\ UNCHANGED <<leaseVars, keyVars, spc, sseg, handle, released>>

\* the calls that run into these failures
FaultSubs == {"s1", "s2", "s3"}

PoolFaultNext ==
    \/ \E s \in FaultSubs, id \in PubIdentities : SubscribeStart(s, id)
    \/ \E s \in FaultSubs : SubscribeDone(s)
    \/ \E s \in FaultSubs, fails \in BOOLEAN : SubscribeFails(s, fails)
    \/ \E s \in FaultSubs : UnsubscribeCall(s)
    \/ \E s \in FaultSubs, fails \in BOOLEAN : UnsubscribeClosed(s, fails)
    \/ \E s \in FaultSubs, fails \in BOOLEAN : UnsubscribeResolves(s, fails)
    \/ \E s \in FaultSubs, kept, fails \in BOOLEAN : UnsubscribeRejects(s, kept, fails)
    \/ \E s \in FaultSubs : ConnectionLost(s)
    \/ \E i \in 1..poolSize : IdleConnectionLost(i)
    \/ \E id \in PubIdentities : PublishSegmentComplete(id)
    \/ \E failing \in SUBSET (1..poolSize) : DisposeTry(failing)

PoolFaultSpec == Init /\ [][PoolFaultNext]_vars

(* ------------- unacquired claims and a failing status write ----------- *)
\* line 289: the extend of createFailedClaim, async () => false: the key
\* space after it, its result, and the store commands it sent
failedExtend_RunsScript(c, db) ==
    LET r == extendScript(db, LockKey(seg[c]), workerId(c), now + DefaultTTL, DefaultTTL)
    IN [db |-> r.db, result |-> r.reply = 1, commands |-> 1]
failedExtend(c, db) == [db |-> db, result |-> FALSE, commands |-> 0]

\* line 290: the release of createFailedClaim, async () => {}
failedRelease(c, db) == [db |-> db, commands |-> 0]

\* a call on the Claim that an unsuccessful claimSegment returned
Local(name, c, r, result) ==
    [op |-> name, call |-> c, commands |-> r.commands, result |-> result]

\* extend() of an unacquired Claim
ExtendUnacquired(c) ==
    /\ pc[c] = "failed"
    /\ LET r == failedExtend(c, redis)
       IN /\ redis' = r.db
          /\ last' = Local("extend()", c, r, r.result)
    /\ UNCHANGED <<poolVars, released, keyVars, now, pc, seg, expiresAt, claim, mpc, mseg,
                   mwrote, markedUntil, round, lapsed, clobbered>>

\* release() of an unacquired Claim
ReleaseUnacquired(c) ==
    /\ pc[c] = "failed"
    /\ LET r == failedRelease(c, redis)
       IN /\ redis' = r.db
          /\ last' = Local("release()", c, r, "void")
    /\ UNCHANGED <<poolVars, released, keyVars, now, pc, seg, expiresAt, claim, mpc, mseg,
                   mwrote, markedUntil, round, lapsed, clobbered>>

\* lines 78-83: the SET of the Status Record raises, with the record written
\* or not; claimSegment throws the error on and returns no Claim
ClaimStatusFails_RollsBack(c, written) ==
    /\ pc[c] = "status"
    /\ redis' = Del(redis, LockKey(seg[c]))
    /\ last' = NoOp
    /\ pc' = [pc EXCEPT ![c] = "threw"]
    /\ UNCHANGED <<poolVars, released, keyVars, now, seg, expiresAt, claim, mpc, mseg, mwrote,
                   markedUntil, round, lapsed, clobbered>>
ClaimStatusFails(c, written) ==
    /\ pc[c] = "status"
    /\ redis' = IF written
                THEN SetPX(redis, StatusKey(seg[c]), "processing", processingPX)
                ELSE redis
    /\ clobbered' = [clobbered EXCEPT ![seg[c]] = @ \/ written]
    /\ last' = NoOp
    /\ pc' = [pc EXCEPT ![c] = "threw"]
    /\ UNCHANGED <<poolVars, released, keyVars, now, seg, expiresAt, claim, mpc, mseg, mwrote,
                   markedUntil, round, lapsed>>

\* The lease protocol with the calls on unacquired Claims
UnacquiredNext ==
    \/ \E c \in Calls, id \in Identities : ClaimSetNX(c, id)
    \/ \E c \in Calls : ClaimSetStatus(c)
    \/ \E c \in Calls : Extend(c)
    \/ \E c \in Calls : Release(c)
    \/ \E c \in Calls : ExtendUnacquired(c)
    \/ \E c \in Calls : ReleaseUnacquired(c)
    \/ \E m \in Markers, id \in Identities : MarkSetCompleted(m, id)
    \/ \E m \in Markers : MarkSetStatus(m)
    \/ Tick

UnacquiredSpec == Init /\ [][UnacquiredNext]_vars

\* The lease protocol with a Status Record write that may raise
StatusFaultNext ==
    \/ \E c \in Calls, id \in Identities : ClaimSetNX(c, id)
    \/ \E c \in Calls : ClaimSetStatus(c)
    \/ \E c \in Calls, written \in BOOLEAN : ClaimStatusFails(c, written)
    \/ \E c \in Calls : Extend(c)
    \/ \E c \in Calls : Release(c)
    \/ Tick

StatusFaultSpec == Init /\ [][StatusFaultNext]_vars

(* ---------------------------- the key namer --------------------------- *)
\* Identity fields as texts over a two-letter alphabet, the delimiter one of
\* the letters: a text is a sequence of letters of at most MaxFieldLen.
MaxFieldLen == 2
Letters == {"a", ":"}
Texts(n) == UNION {[1..k -> Letters] : k \in 0..n}
\* the string a text stands for
RECURSIVE Str(_)
Str(t) == IF t = << >> THEN "" ELSE Head(t) \o Str(Tail(t))
HasDelimiter(t) == \E i \in DOMAIN t : t[i] = ":"

\* the tuples given to the key namer: fileId, streamType and quality as
\* texts, streamIndex and segmentIndex as numbers
KeyTuples == Texts(MaxFieldLen) \X Texts(1) \X Texts(1) \X {1, 11} \X {1, 11}
\* the segment identity of a tuple
Identity(t) == <<Str(t[1]), Str(t[2]), Str(t[3]), t[4], t[5]>>
Plain(t) == ~HasDelimiter(t[1]) /\ ~HasDelimiter(t[2]) /\ ~HasDelimiter(t[3])

\* lines 61-62, 80, 119 and 159: the names derived from an identity
Names(id) ==
    [segmentKey |-> SegmentKey(id), lockKey |-> LockKey(id), statusKey |-> StatusKey(id),
     completedKey |-> CompletedKey(id), channel |-> Channel(id)]

KeyInit ==
    /\ LeaseInit
    /\ PoolInit
    /\ kid \in KeyTuples
    /\ knamed = NoKeys

\* the names of the identity are derived
NameKeys ==
    /\ knamed = NoKeys
    /\ knamed' = Names(Identity(kid))
    /\ UNCHANGED <<leaseVars, poolVars, released, kid>>

KeySpec == KeyInit /\ [][NameKeys]_vars

Next ==
    \/ \E c \in Calls, id \in Identities : ClaimSetNX(c, id)
    \/ \E c \in Calls : ClaimSetStatus(c)
    \/ \E c \in Calls : Extend(c)
    \/ \E c \in Calls : Release(c)
    \/ \E m \in Markers, id \in Identities : MarkSetCompleted(m, id)
    \/ \E m \in Markers : MarkSetStatus(m)
    \/ Tick

Spec == Init /\ [][Next]_vars

\* The lease protocol alone, with the clock that never stops before MaxTime
\* and calls that go on to their next await once the store has answered.
LiveNext ==
    \/ \E c \in Calls, id \in Identities : ClaimSetNX(c, id)
    \/ \E c \in Calls : ClaimSetStatus(c)
    \/ \E c \in Calls : Extend(c)
    \/ \E c \in Calls : Release(c)
    \/ \E c \in Calls : Crash(c)
    \/ Tick

LiveSpec ==
    /\ Init /\ [][LiveNext]_vars
    /\ WF_vars(Tick)
    /\ \A c \in Calls : WF_vars(ClaimSetStatus(c))

\* Every operation of the class side by side: the lease protocol of one
\* manager, markSegmentCompleted, and one subscription with publishes and
\* dispose.
ClassCalls == {"c1"}
ClassSubs == {"s1"}

ClassNext ==
    \/ \E c \in ClassCalls, id \in Identities : ClaimSetNX(c, id)
    \/ \E c \in ClassCalls : ClaimSetStatus(c)
    \/ \E c \in ClassCalls : Extend(c)
    \/ \E c \in ClassCalls : Release(c)
    \/ \E m \in Markers, id \in Identities : MarkSetCompleted(m, id)
    \/ \E m \in Markers : MarkSetStatus(m)
    \/ Tick
    \/ \E s \in ClassSubs, id \in PubIdentities : SubscribeStart(s, id)
    \/ \E s \in ClassSubs : SubscribeDone(s)
    \/ \E s \in ClassSubs : UnsubscribeCall(s)
    \/ \E s \in ClassSubs : UnsubscribeDone(s)
    \/ \E id \in PubIdentities : PublishSegmentComplete(id)
    \/ Dispose

ClassSpec == Init /\ [][ClassNext]_vars

(* ============================== claims ================================ *)
Owner(entry) == cjsonDecode(entry.value).workerId
Returned(c) == pc[c] \in {"failed", "held", "released", "crashed"}
Winners(id) == {c \in round[id] : pc[c] = "status" \/ claim[c].acquired}

\* C1: of the claimSegment calls made on a segment since its Lock Record was
\* last absent (the lock neither released nor expired since), exactly one
\* created the record and returns acquired = true, and every other one returns
\* acquired = false with expiresAt = 0; the record is there throughout.
C1_ExactlyOneAcquires ==
    \A id \in Identities :
        round[id] # {} =>
            /\ Exists(redis, LockKey(id))
            /\ Cardinality(Winners(id)) = 1
            /\ \A c \in round[id] \ Winners(id) :
                   /\ Returned(c)
                   /\ claim[c].acquired = FALSE
                   /\ claim[c].expiresAt = 0
            /\ (\A c \in round[id] : Returned(c)) =>
                   Cardinality({c \in round[id] : claim[c].acquired}) = 1

\* three calls raced for the lock and all have returned
C1_Witness ==
    \E id \in Identities :
        /\ Cardinality(round[id]) = 3
        /\ \A c \in round[id] : Returned(c)

\* the workers in their processing phase for a segment
ProcessingWorkers(id) ==
    {workerId(c) : c \in {d \in Calls : seg[d] = id /\ Processing(d)}}

NotOwner(c, pre) == pre = <<>> \/ Owner(pre[1]) # workerId(c)

\* C3: when the Lock Record is absent or its stored owner is not the calling
\* claim's worker id, extend() returns false, release() deletes nothing, and
\* the record (owner, expiresAt, TTL, presence) is as before the call.
C3_OwnerOnly ==
    (last.op \in {"extend", "release"} /\ NotOwner(last.call, last.pre)) =>
        /\ last.reply = 0
        /\ Entry(redis, last.key) = last.pre

\* a call whose lease ran out extends while another worker owns the lock
C3_Witness ==
    /\ last.op = "extend"
    /\ last.pre # <<>>
    /\ Owner(last.pre[1]) # workerId(last.call)

\* C4: a held claim that is neither extended nor released is gone from the
\* store once its lease has run out (no Lock Record outlives its TTL, and the
\* TTL is at most one lease from now), and a claimSegment that then finds the
\* record absent creates it and returns acquired = true.
C4_LeaseSelfExpiry ==
    /\ \A id \in Identities :
           (\E c \in Calls : pc[c] = "crashed" /\ seg[c] = id)
               ~> ~Exists(redis, LockKey(id))
    /\ [](\A id \in Identities :
              Exists(redis, LockKey(id)) =>
                  /\ now < redis[LockKey(id)].pexpireAt
                  /\ redis[LockKey(id)].pexpireAt <= now + DefaultTTL)
    /\ []((last.op = "setnx" /\ last.pre = <<>>) =>
              last.reply = "OK" /\ pc[last.call] = "status")
    /\ \A c \in Calls : (pc[c] = "status") ~> claim[c].acquired

\* a worker crashed holding the lock and another worker acquired it after
\* the crashed worker's lease
C4_Witness ==
    \E c, d \in Calls :
        /\ pc[c] = "crashed" /\ pc[d] = "held"
        /\ seg[c] = seg[d]
        /\ workerId(c) # workerId(d)
        /\ claim[d].expiresAt >= claim[c].expiresAt + DefaultTTL

\* C5: when the stored owner is the calling claim's worker id, extend()
\* returns true, the record keeps its owner, its expiresAt is the new value
\* and its remaining TTL is the full lease.
C5_ExtendRenews ==
    (last.op = "extend" /\ ~NotOwner(last.call, last.pre)) =>
        /\ last.reply = 1
        /\ Exists(redis, last.key)
        /\ cjsonDecode(redis[last.key].value) =
               [workerId |-> workerId(last.call), expiresAt |-> now + DefaultTTL]
        /\ redis[last.key].pexpireAt - now = DefaultTTL

\* the owner extended a lease that had less than a full lease left
C5_Witness ==
    /\ last.op = "extend"
    /\ last.reply = 1
    /\ last.pre[1].pexpireAt < now + DefaultTTL
    /\ cjsonDecode(last.pre[1].value).expiresAt < now + DefaultTTL

\* C6: from the return of markSegmentCompleted until its completion TTL has
\* run out, isSegmentCompleted is true, whatever happened to the lock.
C6_CompletionIndependent ==
    \A id \in Identities : now < markedUntil[id] => isSegmentCompleted(id)

\* the segment is completed, its lock ran out under a worker and is absent
C6_Witness ==
    \E id \in Identities :
        /\ now < markedUntil[id]
        /\ lapsed[id]
        /\ ~Exists(redis, LockKey(id))
        /\ isSegmentCompleted(id)

\* C7 as stated: from the return of markSegmentCompleted until its completion
\* TTL has run out, getSegmentStatus is "completed" and isSegmentCompleted is
\* true, whatever claimSegment, extend and release calls interleave.
C7_StatusCompleted ==
    \A id \in Identities :
        now < markedUntil[id] =>
            getSegmentStatus(id) = "completed" /\ isSegmentCompleted(id)

\* C7 as amended: in that interval isSegmentCompleted is true, and
\* getSegmentStatus is "completed" unless a claimSegment that acquired the
\* lock wrote its Status Record after markSegmentCompleted wrote its own.
C7_StatusCompletedUnlessReclaimed ==
    \A id \in Identities :
        now < markedUntil[id] =>
            /\ isSegmentCompleted(id)
            /\ ~clobbered[id] => getSegmentStatus(id) = "completed"

\* the segment was marked completed while a claim on it is held
C7_Witness ==
    \E c \in Calls :
        /\ pc[c] = "held"
        /\ now < markedUntil[seg[c]]
        /\ ~clobbered[seg[c]]
        /\ Exists(redis, LockKey(seg[c]))

\* C8: a Completion Record that exists is still there with the same value
\* after any step, unless the step is the clock reaching the end of its TTL.
C8_CompletionMonotonic ==
    [][\A id \in Identities :
          Exists(redis, CompletedKey(id)) =>
              \/ /\ Exists(redis', CompletedKey(id))
                 /\ redis'[CompletedKey(id)].value = redis[CompletedKey(id)].value
              \/ /\ now' = now + 1
                 /\ redis[CompletedKey(id)].pexpireAt <= now']_vars

\* the lock of a completed segment has just been released, after a
\* subscription came and went and the manager was disposed
C8_Witness ==
    /\ last.op = "release"
    /\ last.reply = 1
    /\ \E id \in Identities :
           last.key = LockKey(id) /\ isSegmentCompleted(id)
    /\ disposed
    /\ \E s \in ClassSubs : spc[s] = "done"

\* C9: a publish on an identity invokes exactly once the callback of every
\* subscription to that identity whose subscribe has returned and whose
\* unsubscribe closure has not been called, and invokes no callback of a
\* subscription to another identity, reused handles included.
C9_NotificationDelivery ==
    plast.op = "publish" =>
        \A s \in Subs :
            /\ (spc[s] = "subscribed" /\ sseg[s] = plast.id) => plast.fired[s] = 1
            /\ sseg[s] # plast.id => plast.fired[s] = 0

\* a publish reaches a subscription whose handle came from the pool, where
\* the one subscription before it, to the other identity, had put it
C9_Witness ==
    /\ plast.op = "publish"
    /\ ~disposed /\ nDisconnected = 0 /\ subscriberPool = << >>
    /\ \E s, t \in Subs :
           /\ spc[t] = "done" /\ spc[s] = "subscribed"
           /\ sseg[t] # sseg[s]
           /\ sseg[s] = plast.id
           /\ plast.fired[s] = 1 /\ plast.fired[t] = 0
           /\ \A u \in Subs \ {s, t} : spc[u] = "idle"

\* C10: the idle pool never holds more than poolSize handles; the release of
\* an open handle that finds poolSize handles idle disconnects it; and once
\* every subscription has released its handle, more than poolSize handles in
\* all leave exactly poolSize idle and the rest disconnected (the manager not
\* disposed).
C10_PoolCapacity ==
    /\ Len(subscriberPool) <= poolSize
    /\ (plast.op = "release" /\ plast.wasOpen /\ plast.before = poolSize) =>
           /\ ~plast.pooled
           /\ plast.closed = 1
           /\ Len(subscriberPool) = poolSize
    /\ ((\A s \in Subs : spc[s] = "done") /\ ~disposed
            /\ Len(subscriberPool) + nDisconnected > poolSize) =>
           Len(subscriberPool) = poolSize

\* six handles were released: five are idle and the sixth, released last,
\* was disconnected
C10_Witness ==
    /\ \A s \in Subs : spc[s] = "done"
    /\ ~disposed
    /\ Len(subscriberPool) = poolSize
    /\ nDisconnected = 1
    /\ plast.op = "release" /\ plast.before = poolSize /\ plast.closed = 1

\* C11: once dispose() has run the idle pool is empty in every later state;
\* dispose() calls disconnect() on every handle that was idle and open, the
\* failing ones included, and raises nothing; and a release after dispose()
\* calls disconnect() on the handle and does not pool it.
C11_PostDispose ==
    /\ disposed => subscriberPool = << >>
    /\ plast.op = "dispose" =>
           /\ plast.attempted = plast.open
           /\ ~plast.raised
    /\ (plast.op = "release" /\ plast.wasDisposed) =>
           /\ ~plast.pooled
           /\ plast.attempted = 1

\* dispose() has just run on two idle open handles, the disconnect of one of
\* them failed, and a subscription is still active
C11_Witness ==
    /\ plast.op = "dispose"
    /\ plast.open = 2
    /\ plast.failed = 1
    /\ \E s \in FaultSubs : spc[s] = "subscribed" /\ handle[s].isOpen

\* C12: a claimSegment call that does not acquire the lock leaves the whole
\* key space (Lock, Status and Completion Records) as it was and returns the
\* unacquired Claim; extend() and release() of that Claim send no store
\* command and leave the key space as it was, extend() returning false,
\* whatever the Lock Record is at the time.
C12_UnacquiredNoOps ==
    [][\A c \in Calls :
          /\ (pc[c] = "idle" /\ pc'[c] = "failed") =>
                 /\ redis' = redis
                 /\ claim'[c] = createFailedClaim(c, SegmentKey(seg'[c]))
                 /\ ~claim'[c].acquired
          /\ (pc[c] = "failed" /\ last' # last /\ last'.op \in {"extend()", "release()"}
                 /\ last'.call = c) =>
                 /\ redis' = redis
                 /\ last'.commands = 0
                 /\ last'.op = "extend()" => last'.result = FALSE]_vars

\* extend() of an unacquired Claim was called while the lock is held under
\* the same worker id and the segment is completed
C12_Witness ==
    /\ last.op = "extend()"
    /\ \E id \in Identities :
           /\ seg[last.call] = id
           /\ Exists(redis, LockKey(id))
           /\ Owner(redis[LockKey(id)]) = workerId(last.call)
           /\ Exists(redis, StatusKey(id))
           /\ isSegmentCompleted(id)

\* C13 as stated: any identity that differs from the named one in at least
\* one field has another segmentKey.
C13_KeyNamerInjective ==
    knamed # NoKeys =>
        \A t \in KeyTuples :
            Identity(t) # Identity(kid) =>
                Names(Identity(t)).segmentKey # knamed.segmentKey

\* C13 as amended: among identities whose fileId, streamType and quality hold
\* no ':', any identity that differs from the named one in at least one field
\* has another segmentKey, lock key, status key, completion key and channel.
C13_KeyNamerInjectiveWithoutDelimiter ==
    (knamed # NoKeys /\ Plain(kid)) =>
        \A t \in KeyTuples :
            (Plain(t) /\ Identity(t) # Identity(kid)) =>
                LET n == Names(Identity(t))
                IN /\ n.segmentKey # knamed.segmentKey
                   /\ n.lockKey # knamed.lockKey
                   /\ n.statusKey # knamed.statusKey
                   /\ n.completedKey # knamed.completedKey
                   /\ n.channel # knamed.channel

\* the names of fileId "aa" with an empty streamType were derived; the
\* identity with fileId "a" and streamType "a" has the same letters
C13_Witness ==
    /\ knamed # NoKeys
    /\ kid = << <<"a", "a">>, << >>, <<"a">>, 1, 11 >>
    /\ Plain(<< <<"a">>, <<"a">>, <<"a">>, 1, 11 >>)

\* C14: extend() and release() of a Claim whose lease ran out, on a segment
\* that a later claimSegment call has claimed again (under any worker id, the
\* Claim's own included), return false resp. delete nothing and leave the
\* later call's Lock Record as it is.
C14_ClaimInstanceBinding ==
    [][\A c \in Calls :
          (/\ pc[c] = "held"
           /\ c \notin round[seg[c]]
           /\ Exists(redis, LockKey(seg[c]))
           /\ last' # last
           /\ last'.op \in {"extend", "release"}
           /\ last'.call = c) =>
              /\ last'.reply = 0
              /\ redis' = redis]_vars

\* C15: whenever a Lock Record exists that a claimSegment call created and
\* that call has returned acquired = true, a Status Record exists for the
\* segment too, however often extend() has renewed the lock.
C15_StatusOutlivesLock ==
    \A id \in Identities :
        (/\ Exists(redis, LockKey(id))
         /\ \E c \in round[id] : claim[c].acquired) =>
            Exists(redis, StatusKey(id))

\* C16: extend() and release() of an acquired Claim leave the Status Record
\* and the Completion Record of the segment as they were, value and TTL,
\* whatever the owner check says; after a release() that deleted, the Lock
\* Record is absent and a SET NX on the lock key by any worker creates it at
\* once.
C16_ReleaseFrame ==
    [][\A c \in Calls :
          (/\ pc[c] = "held"
           /\ last' # last
           /\ last'.op \in {"extend", "release"}
           /\ last'.call = c) =>
              /\ Entry(redis', StatusKey(seg[c])) = Entry(redis, StatusKey(seg[c]))
              /\ Entry(redis', CompletedKey(seg[c])) = Entry(redis, CompletedKey(seg[c]))
              /\ (last'.op = "release" /\ last'.reply = 1) =>
                     /\ ~Exists(redis', LockKey(seg[c]))
                     /\ \A w \in WorkerIds :
                            SetNXPX(redis', LockKey(seg[c]),
                                    JSONstringify(w, now + DefaultTTL), lockPX).reply = "OK"]_vars

\* another worker created the Lock Record before the lease of a released
\* Claim would have run out, the segment's status and completion in place
C16_Witness ==
    /\ last.op = "setnx"
    /\ last.reply = "OK"
    /\ \E c \in Calls :
           /\ pc[c] = "released"
           /\ claim[c].acquired
           /\ seg[c] = seg[last.call]
           /\ now < claim[c].expiresAt
           /\ workerId(c) # workerId(last.call)
           /\ Exists(redis, StatusKey(seg[c]))
           /\ isSegmentCompleted(seg[c])

\* C17: when subscribe() inside subscribeToSegmentComplete raises, the call
\* ends with the error and no closure, and its handle has been released
\* exactly once and is held no longer: it is on top of the idle pool, which
\* happens only for an open handle with the manager not disposed and room in
\* the pool, or disconnect() was called on it.
C17_SubscribeFailureReleases ==
    /\ \A s \in Subs :
           spc[s] = "failed" => released[s] = 1 /\ handle[s] = NoHandle
    /\ (plast.op = "release" /\ plast.why = "subscribe failed") =>
           /\ spc[plast.sub] = "failed"
           /\ plast.pooled # (plast.attempted = 1)
           /\ plast.pooled =>
                  /\ plast.wasOpen /\ ~plast.wasDisposed /\ plast.before < poolSize
                  /\ Len(subscriberPool) = plast.before + 1
                  /\ subscriberPool[Len(subscriberPool)].isOpen
           /\ ~plast.pooled => Len(subscriberPool) = plast.before

\* a subscribe failed on an open handle, which went back to the pool it had
\* come from
C17_Witness ==
    /\ plast.op = "release"
    /\ plast.why = "subscribe failed"
    /\ plast.pooled
    /\ \E s \in FaultSubs \ {plast.sub} : spc[s] = "done"
    /\ nDisconnected = 0
    /\ Len(subscriberPool) = 1

\* C18: the unsubscribe closure, called once, never ends with an error, and
\* when it has ended its handle has been released exactly once, into the idle
\* pool or by a call of disconnect(), whether the handle was open or not and
\* whether unsubscribe() and disconnect() succeeded or raised.
C18_UnsubscribeNeverThrows ==
    /\ \A s \in Subs :
           /\ spc[s] # "threw"
           /\ released[s] <= 1
           /\ spc[s] = "done" => released[s] = 1 /\ handle[s] = NoHandle
    /\ (plast.op = "release"
            /\ plast.why \in {"unsubscribed", "unsubscribe failed", "not open"}) =>
           /\ spc[plast.sub] = "done"
           /\ ~plast.raised
           /\ plast.pooled # (plast.attempted = 1)

\* unsubscribe() raised on an open handle and the disconnect() that followed
\* failed too
C18_Witness ==
    /\ plast.op = "release"
    /\ plast.why = "unsubscribe failed"
    /\ plast.wasOpen
    /\ plast.attempted = 1
    /\ plast.closed = 0
    /\ spc[plast.sub] = "done"

\* C19: no handle in the idle pool carries a subscription, and a publish
\* invokes no callback of a subscription whose unsubscribe closure has
\* ended, whether unsubscribe() raised or not and whoever holds the handle
\* since.
C19_PooledHandlesUnsubscribed ==
    /\ \A i \in 1..Len(subscriberPool) : subscriberPool[i].listeners = {}
    /\ plast.op = "publish" =>
           \A s \in Subs : spc[s] = "done" => plast.fired[s] = 0

====
